---- MODULE Spec2Model ----
(***************************************************************************)
(* Model of the session store API of backend/routers/sessions.py: three    *)
(* tables (Session, SessionSearch, SessionResult), the six request         *)
(* handlers, and the external worker that fills in the worker-owned        *)
(* columns and the result rows.  A handler is cut at its awaits: every     *)
(* store round trip is one atomic step, and what a handler holds between   *)
(* two round trips is kept in loc.                                         *)
(*                                                                         *)
(* resp is the response the last step sent (NoResp when the step was the   *)
(* worker's, or a handler's first round trip).  upserted and patched are   *)
(* history variables: the issue tags of the last successful upsert of each *)
(* session, and for each result the tier and status carried by the last    *)
(* request (the insert, then the patches) that carried one.                *)
(***************************************************************************)
EXTENDS Integers, Sequences, FiniteSets, TLC

VARIABLES session, sessionsearch, sessionresult, pc, loc, resp, upserted, patched

vars == <<session, sessionsearch, sessionresult, pc, loc, resp, upserted, patched>>

store == <<session, sessionsearch, sessionresult>>

(***************************************************************************)
(* Bounds of the model.                                                    *)
(***************************************************************************)
MaxSessions == 2
MaxResults == 2
MaxIssues == 2

(***************************************************************************)
(* Optional values: None is the empty tuple, Some(v) the one-tuple.        *)
(***************************************************************************)
None == <<>>
Some(v) == <<v>>
Option(S) == {None} \cup {Some(v) : v \in S}

Min(a, b) == IF a < b THEN a ELSE b
Max(a, b) == IF a < b THEN b ELSE a

(***************************************************************************)
(* Types of the request and response schemas.                              *)
(***************************************************************************)
IssueType ==
    {"seo-issues", "missing-title", "missing-meta-description", "missing-h1",
     "slow-performance"}

ResultStatus == {"pending", "completed", "error"}

\* A field declared list[str]: every list of strings passes.
ValidIssuesAny(issues) == TRUE

\* pydantic's check of list[IssueType]: every element is one of the literals.
ValidIssues(issues) == \A i \in 1..Len(issues) : issues[i] \in IssueType

(***************************************************************************)
(* json.dumps and json.loads on a list of strings.  A JSON text is the     *)
(* sequence of its lexical tokens: the punctuation "[", ", " and "]", and  *)
(* one string literal for each item.                                       *)
(***************************************************************************)
Punct(c) == [kind |-> "punct", text |-> c]
Literal(t) == [kind |-> "string", text |-> t]

RECURSIVE json_items(_)
json_items(xs) ==
    IF Len(xs) = 0 THEN <<>>
    ELSE IF Len(xs) = 1 THEN <<Literal(xs[1])>>
    ELSE <<Literal(xs[1]), Punct(", ")>> \o json_items(Tail(xs))

json_dumps(xs) == <<Punct("[")>> \o json_items(xs) \o <<Punct("]")>>

\* The strings of the literals between the brackets, in the order they come.
RECURSIVE json_loads(_)
json_loads(text) ==
    IF Len(text) = 0 THEN <<>>
    ELSE IF Head(text).kind = "string"
    THEN <<Head(text).text>> \o json_loads(Tail(text))
    ELSE json_loads(Tail(text))

(***************************************************************************)
(* Input domains.  Times are the timestamps the store's clock may assign;  *)
(* InputTags holds two recognised issue tags and one the schema rejects.   *)
(***************************************************************************)
Times == {1, 2}
Queries == {"plumbers", "dentists"}
MaxResultsInputs == {20, 50}
Tiers == {0, 35}
InputTags == {"missing-title", "missing-h1", "broken-links"}
IssueInputs == UNION {[1..n -> InputTags] : n \in 0..MaxIssues}
SearchBodies == [query : Queries, issues : IssueInputs, max_results : MaxResultsInputs]
SessionIds == 1..(MaxSessions + 1)
ResultIds == 1..(MaxResults + 1)
PageArgs == 0..(Max(MaxSessions, MaxResults) + 1)
\* What the worker writes to the progress columns of a search.
CheckedCounts == {3}
Cursors == {"page-2"}
\* SessionResultUpdate: both fields optional, a present status is a ResultStatus.
PatchBodies == [tier : Option(Tiers), status : Option(ResultStatus)]
Procs == {1, 2}

NoResp == [op |-> "none"]
NoLoc == [op |-> "none"]

(***************************************************************************)
(* The store: rows of a table are kept in id order, ids are 1, 2, ...      *)
(***************************************************************************)
SessionRow(id, ts) == [id |-> id, createdAt |-> ts]

\* A new SessionSearch row: the data of the create and the column defaults.
SearchRow(id, data) ==
    [id |-> id, sessionId |-> data.sessionId, query |-> data.query,
     issuesFilter |-> data.issuesFilter,
     maxResultsRequested |-> data.maxResultsRequested, status |-> data.status,
     checkedWebsitesCount |-> 0, lastSearchCursor |-> None, completedAt |-> None]

\* A store with no index on SessionSearch.sessionId: every create is taken.
SearchUniqueOff(table, sid) == TRUE

\* The unique index on SessionSearch.sessionId: a second row for a session
\* is refused.
SearchUniqueOk(table, sid) == \A i \in 1..Len(table) : table[i].sessionId # sid

\* db.sessionsearch.find_unique(where={"sessionId": sid}), and the search
\* relation of include={"search": True}.
SearchOf(table, sid) ==
    LET ids == {i \in 1..Len(table) : table[i].sessionId = sid}
    IN  IF ids = {} THEN None
        ELSE Some(table[CHOOSE i \in ids : \A j \in ids : i <= j])

\* db.session.find_unique(where={"id": sid}).
SessionOf(table, sid) == IF sid \in 1..Len(table) THEN Some(table[sid]) ELSE None

\* db.sessionresult.find_unique(where={"id": rid}).
ResultOf(table, rid) == IF rid \in 1..Len(table) THEN Some(table[rid]) ELSE None

\* The orders a query with order={"createdAt": dir} may return the rows ids
\* in: every permutation sorted by createdAt (rows of equal createdAt come in
\* any order).
Ordered(table, ids, dir) ==
    {o \in [1..Cardinality(ids) -> ids] :
        /\ \A i, j \in DOMAIN o : i # j => o[i] # o[j]
        /\ \A i, j \in DOMAIN o :
              i < j => IF dir = "desc"
                       THEN table[o[i]].createdAt >= table[o[j]].createdAt
                       ELSE table[o[i]].createdAt <= table[o[j]].createdAt}

\* find_many(skip, take, order): the rows at positions skip+1 .. skip+take of
\* the ordered rows.
FindMany(table, ids, q) ==
    {[i \in 1..Max(0, Min(q.take, Len(o) - q.skip)) |-> table[o[q.skip + i]]] :
        o \in Ordered(table, ids, q.order)}

\* update(where={"id": id}, data): the columns data names take data's values,
\* the others keep theirs.
RowUpdate(row, data) ==
    [c \in DOMAIN row |-> IF c \in DOMAIN data THEN data[c] ELSE row[c]]

(***************************************************************************)
(* Responses: args are the path and query parameters of the request.       *)
(***************************************************************************)
Ok(op, args, body) == [op |-> op, code |-> 200, args |-> args, body |-> body]
Err(op, args, code, detail) == [op |-> op, code |-> code, args |-> args, detail |-> detail]

SessionSearchRead(search) ==
    [session_id |-> search.sessionId, query |-> search.query,
     issues |-> json_loads(search.issuesFilter),
     max_results_requested |-> search.maxResultsRequested,
     checked_websites_count |-> search.checkedWebsitesCount,
     last_search_cursor |-> search.lastSearchCursor,
     is_completed |-> (search.completedAt # None)]

SessionResultRead(result) ==
    [id |-> result.id, created_at |-> result.createdAt,
     session_id |-> result.sessionId, url |-> result.url, domain |-> result.domain,
     page_count |-> result.pageCount, tier |-> result.tier,
     issues_detected |->
        IF result.issuesDetected # None /\ result.issuesDetected[1] # <<>>
        THEN json_loads(result.issuesDetected[1]) ELSE <<>>,
     lighthouse_json |-> result.lighthouseJson,
     contact_email |-> result.contactEmail, status |-> result.status]

Idle(p) == pc[p] = "idle"

(***************************************************************************)
(* POST /sessions                                                          *)
(***************************************************************************)
\* The response body of create_session for the row the store returned.
CreateSessionRead(row) ==
    [id |-> row.id, created_at |-> row.createdAt, name |-> "Untitled session",
     is_configured |-> FALSE, is_completed |-> FALSE]

CreateSession(ts) ==
    /\ Len(session) < MaxSessions
    /\ LET row == SessionRow(Len(session) + 1, ts)
       IN  /\ session' = Append(session, row)
           /\ resp' = Ok("create_session", <<>>, CreateSessionRead(row))
    /\ upserted' = Append(upserted, None)
    /\ UNCHANGED <<sessionsearch, sessionresult, pc, loc, patched>>

(***************************************************************************)
(* GET /sessions                                                           *)
(***************************************************************************)
\* The page in ascending order of createdAt.
ListSessionsQueryAsc(offset, limit) == [skip |-> offset, take |-> limit, order |-> "asc"]

\* find_many(skip=offset, take=limit, order={"createdAt": "desc"}).
ListSessionsQuery(offset, limit) == [skip |-> offset, take |-> limit, order |-> "desc"]

\* A listing that reports every configured session as completed.
ListedSessionNoCompletion(row, search) ==
    [id |-> row.id, created_at |-> row.createdAt, name |-> "Untitled session",
     is_configured |-> search # None, is_completed |-> search # None]

\* One listed session, from the session row and its included search.
ListedSession(row, search) ==
    [id |-> row.id, created_at |-> row.createdAt, name |-> "Untitled session",
     is_configured |-> search # None,
     is_completed |-> (search # None /\ search[1].completedAt # None)]

\* The responses list_sessions may give (one for each order of the rows of
\* equal createdAt).
list_sessions(offset, limit) ==
    {Ok("list_sessions", <<offset, limit>>,
        [i \in 1..Len(rows) |-> ListedSession(rows[i], SearchOf(sessionsearch, rows[i].id))]) :
        rows \in FindMany(session, 1..Len(session), ListSessionsQuery(offset, limit))}

ListSessions(offset, limit) ==
    /\ resp' \in list_sessions(offset, limit)
    /\ UNCHANGED <<store, pc, loc, upserted, patched>>

(***************************************************************************)
(* PUT /sessions/{session_id}/search                                       *)
(***************************************************************************)
\* An update that also puts the worker's columns back to their defaults.
SearchUpdateDataReset(body) ==
    [query |-> body.query, issuesFilter |-> json_dumps(body.issues),
     maxResultsRequested |-> body.max_results,
     checkedWebsitesCount |-> 0, lastSearchCursor |-> None, completedAt |-> None]

\* The data of the update branch.
SearchUpdateData(body) ==
    [query |-> body.query, issuesFilter |-> json_dumps(body.issues),
     maxResultsRequested |-> body.max_results]

\* A create that stores every tag once.
SearchCreateDataDedup(session_id, body) ==
    LET RECURSIVE Dedup(_)
        Dedup(xs) ==
            IF Len(xs) = 0 THEN <<>>
            ELSE LET front == Dedup(SubSeq(xs, 1, Len(xs) - 1))
                     last == xs[Len(xs)]
                 IN  IF \E i \in 1..Len(front) : front[i] = last THEN front
                     ELSE Append(front, last)
    IN  [sessionId |-> session_id, query |-> body.query,
         issuesFilter |-> json_dumps(Dedup(body.issues)),
         maxResultsRequested |-> body.max_results, status |-> "pending"]

\* The data of the create branch.
SearchCreateData(session_id, body) ==
    [sessionId |-> session_id, query |-> body.query,
     issuesFilter |-> json_dumps(body.issues),
     maxResultsRequested |-> body.max_results, status |-> "pending"]

\* Request validation, then the find_unique of the session with its search.
UpsertRead(p, session_id, body) ==
    /\ Idle(p)
    /\ LET found == SessionOf(session, session_id)
           args == <<session_id>>
       IN  IF ~ValidIssues(body.issues)
           THEN /\ resp' = Err("upsert_session_search", args, 422, "validation")
                /\ UNCHANGED <<pc, loc>>
           ELSE IF found = None
           THEN /\ resp' = Err("upsert_session_search", args, 404, "Session not found")
                /\ UNCHANGED <<pc, loc>>
           ELSE /\ pc' = [pc EXCEPT ![p] = "upsert_write"]
                /\ loc' = [loc EXCEPT ![p] =
                             [op |-> "upsert", session_id |-> session_id, body |-> body,
                              search_id |->
                                 LET s == SearchOf(sessionsearch, session_id)
                                 IN  IF s = None THEN None ELSE Some(s[1].id)]]
                /\ resp' = NoResp
    /\ UNCHANGED <<store, upserted, patched>>

\* The create or update, and the response built from the row it returns.
UpsertWrite(p) ==
    /\ pc[p] = "upsert_write"
    /\ LET l == loc[p]
           args == <<l.session_id>>
       IN  IF l.search_id = None
           THEN IF SearchUniqueOk(sessionsearch, l.session_id)
                THEN LET row == SearchRow(Len(sessionsearch) + 1,
                                          SearchCreateData(l.session_id, l.body))
                     IN  /\ sessionsearch' = Append(sessionsearch, row)
                         /\ resp' = Ok("upsert_session_search", args, SessionSearchRead(row))
                         /\ upserted' = [upserted EXCEPT ![l.session_id] = Some(l.body.issues)]
                ELSE /\ resp' = Err("upsert_session_search", args, 500, "unique constraint")
                     /\ UNCHANGED <<sessionsearch, upserted>>
           ELSE LET id == l.search_id[1]
                    row == RowUpdate(sessionsearch[id], SearchUpdateData(l.body))
                IN  /\ sessionsearch' = [sessionsearch EXCEPT ![id] = row]
                    /\ resp' = Ok("upsert_session_search", args, SessionSearchRead(row))
                    /\ upserted' = [upserted EXCEPT ![l.session_id] = Some(l.body.issues)]
    /\ pc' = [pc EXCEPT ![p] = "idle"]
    /\ loc' = [loc EXCEPT ![p] = NoLoc]
    /\ UNCHANGED <<session, sessionresult, patched>>

(***************************************************************************)
(* GET /sessions/{session_id}/search                                       *)
(***************************************************************************)
\* A handler that looks the session up before the search.
get_session_search_checked(session_id) ==
    LET search == SearchOf(sessionsearch, session_id)
    IN  IF SessionOf(session, session_id) = None
        THEN Err("get_session_search", <<session_id>>, 404, "Session not found")
        ELSE IF search = None
        THEN Err("get_session_search", <<session_id>>, 404,
                 "Search not configured for session")
        ELSE Ok("get_session_search", <<session_id>>, SessionSearchRead(search[1]))

\* find_unique(where={"sessionId": session_id}): the 404 or the search read.
get_session_search(session_id) ==
    LET search == SearchOf(sessionsearch, session_id)
    IN  IF search = None
        THEN Err("get_session_search", <<session_id>>, 404,
                 "Search not configured for session")
        ELSE Ok("get_session_search", <<session_id>>, SessionSearchRead(search[1]))

GetSessionSearch(session_id) ==
    /\ resp' = get_session_search(session_id)
    /\ UNCHANGED <<store, pc, loc, upserted, patched>>

(***************************************************************************)
(* The external worker on a search: it writes the progress columns and     *)
(* marks the search completed.                                             *)
(***************************************************************************)
WorkerProgress(id, count, cursor) ==
    /\ id \in 1..Len(sessionsearch)
    /\ sessionsearch' =
          [sessionsearch EXCEPT ![id].checkedWebsitesCount = count,
                                ![id].lastSearchCursor = Some(cursor)]
    /\ resp' = NoResp
    /\ UNCHANGED <<session, sessionresult, pc, loc, upserted, patched>>

WorkerComplete(id, ts) ==
    /\ id \in 1..Len(sessionsearch)
    /\ sessionsearch[id].completedAt = None
    /\ sessionsearch' =
          [sessionsearch EXCEPT ![id].completedAt = Some(ts), ![id].status = "completed"]
    /\ resp' = NoResp
    /\ UNCHANGED <<session, sessionresult, pc, loc, upserted, patched>>

(***************************************************************************)
(* The external worker on results: it inserts the row of an audited site.  *)
(***************************************************************************)
SiteA ==
    [url |-> "https://a.example/", domain |-> "a.example", pageCount |-> 12,
     tier |-> 35, issuesDetected |-> Some(json_dumps(<<"missing-h1", "seo-issues">>)),
     lighthouseJson |-> Some("{}"), contactEmail |-> Some("info@a.example"),
     status |-> "completed"]

SiteB ==
    [url |-> "https://b.example/", domain |-> "b.example", pageCount |-> 1,
     tier |-> 0, issuesDetected |-> None, lighthouseJson |-> None,
     contactEmail |-> None, status |-> "pending"]

ResultRow(id, session_id, ts, site) ==
    [id |-> id, createdAt |-> ts, sessionId |-> session_id, url |-> site.url,
     domain |-> site.domain, pageCount |-> site.pageCount, tier |-> site.tier,
     issuesDetected |-> site.issuesDetected, lighthouseJson |-> site.lighthouseJson,
     contactEmail |-> site.contactEmail, status |-> site.status]

WorkerAddResult(session_id, ts, site) ==
    /\ session_id \in 1..Len(session)
    /\ Len(sessionresult) < MaxResults
    /\ sessionresult' =
          Append(sessionresult, ResultRow(Len(sessionresult) + 1, session_id, ts, site))
    /\ patched' = Append(patched, [tier |-> Some(site.tier), status |-> Some(site.status),
                                   raced |-> FALSE])
    /\ resp' = NoResp
    /\ UNCHANGED <<session, sessionsearch, pc, loc, upserted>>

(***************************************************************************)
(* GET /sessions/{session_id}/results                                      *)
(***************************************************************************)
\* find_many(where={"sessionId": session_id}, skip, take, order desc).
ListResultsQuery(session_id, offset, limit) ==
    [where |-> session_id, skip |-> offset, take |-> limit, order |-> "desc"]

list_session_results(session_id, offset, limit) ==
    LET q == ListResultsQuery(session_id, offset, limit)
        ids == {i \in 1..Len(sessionresult) : sessionresult[i].sessionId = q.where}
    IN  {Ok("list_session_results", <<session_id, offset, limit>>,
            [i \in 1..Len(rows) |-> SessionResultRead(rows[i])]) :
            rows \in FindMany(sessionresult, ids, q)}

ListSessionResults(session_id, offset, limit) ==
    /\ resp' \in list_session_results(session_id, offset, limit)
    /\ UNCHANGED <<store, pc, loc, upserted, patched>>

(***************************************************************************)
(* PATCH /sessions/{session_id}/results/{result_id}                        *)
(***************************************************************************)
\* A precondition that takes a result of any session.
ResultFoundAnySession(result, session_id) == result # None

\* The precondition: the result exists and belongs to the path's session.
ResultFound(result, session_id) ==
    result # None /\ result[1].sessionId = session_id

\* update_data built on the truth value of tier (0 counts as absent).
UpdateDataTruthy(result, body) ==
    [c \in {k \in {"tier", "status"} :
                body[k] # None /\ (k = "tier" => body[k][1] # 0)} |-> body[c][1]]

\* update_data that writes both columns, the absent one from the row read.
UpdateDataFull(result, body) ==
    [c \in {"tier", "status"} |-> IF body[c] # None THEN body[c][1] ELSE result[c]]

\* update_data: the fields of the body that are not None.
UpdateData(result, body) ==
    [c \in {k \in {"tier", "status"} : body[k] # None} |-> body[c][1]]

\* The find_unique; the 404, or for an empty update_data the response, follow
\* it with no further round trip.
PatchRead(p, session_id, result_id, body) ==
    /\ Idle(p)
    /\ LET result == ResultOf(sessionresult, result_id)
           args == <<session_id, result_id>>
       IN  IF ~ResultFound(result, session_id)
           THEN /\ resp' = Err("update_session_result", args, 404,
                               "Result not found for session")
                /\ UNCHANGED <<pc, loc>>
           ELSE IF DOMAIN UpdateData(result[1], body) = {}
           THEN /\ resp' = Ok("update_session_result", args, SessionResultRead(result[1]))
                /\ UNCHANGED <<pc, loc>>
           ELSE /\ pc' = [pc EXCEPT ![p] = "patch_write"]
                /\ loc' = [loc EXCEPT ![p] =
                             [op |-> "patch", session_id |-> session_id,
                              result_id |-> result_id, body |-> body,
                              update_data |-> UpdateData(result[1], body),
                              result |-> [tier |-> result[1].tier,
                                          status |-> result[1].status]]]
                /\ resp' = NoResp
    /\ UNCHANGED <<store, upserted, patched>>

\* The update, and the response built from the row it returns.
PatchWrite(p) ==
    /\ pc[p] = "patch_write"
    /\ LET l == loc[p]
           old == sessionresult[l.result_id]
           row == RowUpdate(old, l.update_data)
       IN  /\ sessionresult' = [sessionresult EXCEPT ![l.result_id] = row]
           /\ resp' = Ok("update_session_result", <<l.session_id, l.result_id>>,
                         SessionResultRead(row))
           /\ patched' = [patched EXCEPT ![l.result_id] =
                            [tier |-> IF l.body.tier # None THEN l.body.tier ELSE @.tier,
                             status |-> IF l.body.status # None THEN l.body.status ELSE @.status,
                             raced |-> (l.result.tier # old.tier \/ l.result.status # old.status)]]
    /\ pc' = [pc EXCEPT ![p] = "idle"]
    /\ loc' = [loc EXCEPT ![p] = NoLoc]
    /\ UNCHANGED <<session, sessionsearch, upserted>>

Init ==
    /\ session = <<>>
    /\ sessionsearch = <<>>
    /\ sessionresult = <<>>
    /\ pc = [p \in Procs |-> "idle"]
    /\ loc = [p \in Procs |-> NoLoc]
    /\ resp = NoResp
    /\ upserted = <<>>
    /\ patched = <<>>

(***************************************************************************)
(* Spec: every operation that writes, by one client and by the worker,     *)
(* over up to MaxSessions sessions, and the listing of the sessions.       *)
(***************************************************************************)
BodyA == [query |-> "plumbers", issues |-> <<"missing-title">>, max_results |-> 20]
BodyB == [query |-> "dentists", issues |-> <<>>, max_results |-> 50]

RacePatches == {b \in PatchBodies : b.tier # Some(0) /\ b.status \in {None, Some("error")}}

Next ==
    \/ CreateSession(1)
    \/ ListSessions(0, MaxSessions)
    \/ \E session_id \in SessionIds : UpsertRead(1, session_id, BodyA)
    \/ UpsertWrite(1)
    \/ \E id \in 1..MaxSessions, count \in CheckedCounts, cursor \in Cursors :
          WorkerProgress(id, count, cursor)
    \/ \E id \in 1..MaxSessions : WorkerComplete(id, 2)
    \/ \E session_id \in SessionIds :
          Len(sessionresult) = 0 /\ WorkerAddResult(session_id, 1, SiteB)
    \/ \E session_id \in SessionIds, body \in RacePatches : PatchRead(1, session_id, 1, body)
    \/ PatchWrite(1)

Spec == Init /\ [][Next]_vars

(***************************************************************************)
(* SpecSearch: the search configuration of one session, with one client    *)
(* sending every request body and the worker writing between its steps.    *)
(* Session 2 is never created: it is the unknown session.                  *)
(***************************************************************************)
NextSearch ==
    \/ \E ts \in Times : Len(session) = 0 /\ CreateSession(ts)
    \/ \E session_id \in 1..2, body \in SearchBodies : UpsertRead(1, session_id, body)
    \/ UpsertWrite(1)
    \/ \E session_id \in 1..2 : GetSessionSearch(session_id)
    \/ \E count \in CheckedCounts, cursor \in Cursors : WorkerProgress(1, count, cursor)
    \/ \E ts \in Times : WorkerComplete(1, ts)

SpecSearch == Init /\ [][NextSearch]_vars

(***************************************************************************)
(* SpecList: sessions and results with equal and with different            *)
(* timestamps, and pages of them.                                          *)
(***************************************************************************)
NextList ==
    \/ \E ts \in Times : CreateSession(ts)
    \/ \E session_id \in SessionIds, ts \in Times : WorkerAddResult(session_id, ts, SiteB)
    \/ \E offset \in 0..1, limit \in 1..2 : ListSessions(offset, limit)
    \/ \E session_id \in SessionIds, offset \in 0..1, limit \in 1..2 :
          ListSessionResults(session_id, offset, limit)

SpecList == Init /\ [][NextList]_vars

(***************************************************************************)
(* SpecResults: the results of two sessions, one client sending every      *)
(* patch body to every (session, result) path.                             *)
(***************************************************************************)
NextResults ==
    \/ Len(session) < 2 /\ CreateSession(1)
    \/ \E session_id \in 1..2 : WorkerAddResult(session_id, 1, SiteA)
    \/ \E session_id \in 1..3, result_id \in ResultIds, body \in PatchBodies :
          PatchRead(1, session_id, result_id, body)
    \/ PatchWrite(1)

SpecResults == Init /\ [][NextResults]_vars

(***************************************************************************)
(* SpecRace: two clients on one session and its results; their handlers    *)
(* interleave at every store round trip.                                   *)
(***************************************************************************)
NextRace ==
    \/ Len(session) = 0 /\ CreateSession(1)
    \/ \E p \in Procs, session_id \in 1..2, body \in {BodyA, BodyB} :
          UpsertRead(p, session_id, body)
    \/ \E p \in Procs : UpsertWrite(p)
    \/ \E count \in CheckedCounts, cursor \in Cursors : WorkerProgress(1, count, cursor)
    \/ WorkerAddResult(1, 1, SiteB)
    \/ \E p \in Procs, result_id \in ResultIds, body \in RacePatches :
          PatchRead(p, 1, result_id, body)
    \/ \E p \in Procs : PatchWrite(p)

SpecRace == Init /\ [][NextRace]_vars

(***************************************************************************)
(* Properties.                                                             *)
(***************************************************************************)

\* C1: in every reachable state, also when two upserts of one session both
\* read "no search" before either writes, no two SessionSearch rows have the
\* same sessionId.
C1_AtMostOneSearchPerSession ==
    \A i, j \in 1..Len(sessionsearch) :
        sessionsearch[i].sessionId = sessionsearch[j].sessionId => i = j

\* Both clients read "no search" and both created: the second create was
\* refused and one row is stored.
C1_Witness ==
    /\ resp.op = "upsert_session_search"
    /\ resp.code = 500
    /\ Len(sessionsearch) = 1

C6_Original ==
    (resp.op = "get_session_search" /\ resp.code # 200) =>
        resp.detail = IF SessionOf(session, resp.args[1]) = None
                      THEN "Session not found"
                      ELSE "Search not configured for session"

\* C6 (amended): get_session_search answers 404 SearchNotConfigured exactly
\* when no SessionSearch row has the session_id, whether or not the session
\* exists, and answers the search otherwise; it never answers
\* SessionNotFound.
C6_NotConfiguredWheneverNoSearch ==
    resp.op = "get_session_search" =>
        IF \E i \in 1..Len(sessionsearch) : sessionsearch[i].sessionId = resp.args[1]
        THEN resp.code = 200 /\ resp.body.session_id = resp.args[1]
        ELSE resp.code = 404 /\ resp.detail = "Search not configured for session"

\* get_session_search of a session that does not exist, while another does.
C6_Witness ==
    /\ resp.op = "get_session_search"
    /\ resp.code = 404
    /\ Len(session) = 1
    /\ SessionOf(session, resp.args[1]) = None

\* C7: an upsert whose body holds a tag outside the five recognised ones, or
\* whose session does not exist, never reaches the write, so that no row
\* holds such a tag or such a session; the 422 or 404 it is answered leaves
\* the store (and the handler's position) as it was.
C7_FailedUpsertWritesNothing ==
    /\ [](\A p \in Procs :
             pc[p] = "upsert_write" =>
                /\ \A i \in 1..Len(loc[p].body.issues) : loc[p].body.issues[i] \in IssueType
                /\ loc[p].session_id \in 1..Len(session))
    /\ [](\A k \in 1..Len(sessionsearch) :
             /\ sessionsearch[k].sessionId \in 1..Len(session)
             /\ LET issues == json_loads(sessionsearch[k].issuesFilter)
                IN  \A i \in 1..Len(issues) : issues[i] \in IssueType)
    /\ [][(resp'.op = "upsert_session_search" /\ resp'.code \in {404, 422}) =>
             (store' = store /\ pc' = pc)]_vars

\* A rejected body for a session whose search exists.
C7_Witness ==
    /\ resp.op = "upsert_session_search"
    /\ resp.code = 422
    /\ SearchOf(sessionsearch, resp.args[1]) # None

\* C9: a successful upsert answers the issue tags of its body, in their order
\* and with their repetitions, and until the next upsert of the session
\* get_session_search answers them too.
C9_IssuesRoundTrip ==
    /\ (resp.op = "upsert_session_search" /\ resp.code = 200) =>
          resp.body.issues = upserted[resp.args[1]][1]
    /\ \A session_id \in 1..Len(session) :
          upserted[session_id] # None =>
             /\ get_session_search(session_id).code = 200
             /\ get_session_search(session_id).body.issues = upserted[session_id][1]

\* A repeated tag read back, after the worker wrote to the search.
C9_Witness ==
    /\ resp.op = "get_session_search"
    /\ resp.code = 200
    /\ resp.body.issues = <<"missing-h1", "missing-h1">>
    /\ resp.body.checked_websites_count = 3

\* C3: the patch writes only the fields its body carries: the write sets
\* tier and status to the body's values where the body has them and leaves
\* them as they were where it has not, every other column of the row, every
\* other row and the other tables are unchanged; a body with neither field
\* never reaches the write, and its response is the row as it is.
C3_PatchWritesOnlyBodyFields ==
    /\ [](\A p \in Procs :
             pc[p] = "patch_write" =>
                (loc[p].body.tier # None \/ loc[p].body.status # None))
    /\ [][\A p \in Procs :
             (pc[p] = "patch_write" /\ pc'[p] = "idle") =>
                LET b == loc[p].body
                    id == loc[p].result_id
                    old == sessionresult[id]
                    new == sessionresult'[id]
                IN  /\ new.tier = IF b.tier = None THEN old.tier ELSE b.tier[1]
                    /\ new.status = IF b.status = None THEN old.status ELSE b.status[1]
                    /\ \A c \in DOMAIN old \ {"tier", "status"} : new[c] = old[c]
                    /\ Len(sessionresult') = Len(sessionresult)
                    /\ \A i \in 1..Len(sessionresult) :
                          i # id => sessionresult'[i] = sessionresult[i]
                    /\ session' = session
                    /\ sessionsearch' = sessionsearch
                    /\ resp'.body = SessionResultRead(new)]_vars
    /\ [][(resp'.op = "update_session_result" /\ pc' = pc) =>
             /\ store' = store
             /\ resp'.code = 200 =>
                   resp'.body = SessionResultRead(sessionresult[resp'.args[2]])]_vars

\* A status-only patch was written: the status is the body's, the tier and
\* the other columns are the inserted ones.
C3_Witness ==
    /\ resp.op = "update_session_result"
    /\ resp.code = 200
    /\ resp.body.status = "error"
    /\ resp.body.tier = 35
    /\ patched[resp.body.id].tier = Some(35)
    /\ Len(sessionresult) = 2

\* C4: a patch whose result_id names no result, or a result of another
\* session than the path's, never reaches the write and is never answered
\* 200; its 404 ResultNotFound leaves the store (and the handler's position)
\* as it was.
C4_PatchOfForeignResultIsNotFound ==
    /\ [](\A p \in Procs :
             pc[p] = "patch_write" =>
                /\ loc[p].result_id \in 1..Len(sessionresult)
                /\ sessionresult[loc[p].result_id].sessionId = loc[p].session_id)
    /\ []((resp.op = "update_session_result" /\ resp.code = 200) =>
             /\ resp.args[2] \in 1..Len(sessionresult)
             /\ sessionresult[resp.args[2]].sessionId = resp.args[1])
    /\ []((resp.op = "update_session_result" /\ resp.code # 200) =>
             /\ resp.code = 404
             /\ resp.detail = "Result not found for session")
    /\ [][(resp'.op = "update_session_result" /\ resp'.code # 200) =>
             (store' = store /\ pc' = pc)]_vars

\* A 404 for a result that exists under another existing session.
C4_Witness ==
    /\ resp.op = "update_session_result"
    /\ resp.code = 404
    /\ resp.args[1] \in 1..Len(session)
    /\ resp.args[2] \in 1..Len(sessionresult)
    /\ sessionresult[resp.args[2]].sessionId # resp.args[1]

\* The flags of a listed session are those of the stored rows.
FlagsMatchStore(listed) ==
    /\ listed.is_configured <=>
          \E k \in 1..Len(sessionsearch) : sessionsearch[k].sessionId = listed.id
    /\ listed.is_completed <=>
          \E k \in 1..Len(sessionsearch) :
             sessionsearch[k].sessionId = listed.id /\ sessionsearch[k].completedAt # None

\* C5: in every reachable state list_sessions reports each session with
\* is_configured true exactly when a SessionSearch row of the session exists,
\* and is_completed true exactly when that row's completedAt is set;
\* create_session answers both flags false and an id no earlier session has.
C5_ListedFlagsMatchStore ==
    /\ \A r \in list_sessions(0, MaxSessions) :
          /\ Len(r.body) = Len(session)
          /\ \A i \in 1..Len(r.body) : FlagsMatchStore(r.body[i])
    /\ resp.op = "list_sessions" =>
          \A i \in 1..Len(resp.body) : FlagsMatchStore(resp.body[i])
    /\ resp.op = "create_session" =>
          /\ ~resp.body.is_configured
          /\ ~resp.body.is_completed
          /\ FlagsMatchStore(resp.body)
          /\ resp.body.id = session[Len(session)].id
          /\ \A i \in 1..(Len(session) - 1) : session[i].id # resp.body.id

\* A listing of MaxSessions sessions, one completed and one without a search,
\* after a result was inserted.
C5_Witness ==
    /\ resp.op = "list_sessions"
    /\ Len(resp.body) = MaxSessions
    /\ \E i, j \in 1..Len(resp.body) :
          /\ resp.body[i].is_completed
          /\ ~resp.body[j].is_configured
    /\ Len(sessionresult) = 1

\* page holds the rows at positions offset+1 .. offset+limit of the rows ids
\* of table in some descending order of createdAt.
IsDescPage(page, table, ids, offset, limit) ==
    /\ Len(page) = Max(0, Min(limit, Cardinality(ids) - offset))
    /\ \A i \in 1..Len(page) :
          /\ page[i].id \in ids
          /\ page[i].created_at = table[page[i].id].createdAt
    /\ \A i, j \in 1..Len(page) : i # j => page[i].id # page[j].id
    /\ \A i \in 1..Len(page) :
          /\ Cardinality({k \in ids : table[k].createdAt > page[i].created_at})
                <= offset + i - 1
          /\ Cardinality({k \in ids : table[k].createdAt >= page[i].created_at})
                >= offset + i

\* C8: for every offset and limit, list_sessions answers the page of all
\* sessions in descending createdAt, and list_session_results the page of
\* the results of the path's session; a page past the rows, or of a session
\* that does not exist, is the empty sequence with status 200.
C8_ListsAreDescendingPages ==
    \A offset, limit \in PageArgs :
        /\ \A r \in list_sessions(offset, limit) :
              /\ r.code = 200
              /\ IsDescPage(r.body, session, 1..Len(session), offset, limit)
        /\ \A session_id \in SessionIds :
              \A r \in list_session_results(session_id, offset, limit) :
                 /\ r.code = 200
                 /\ IsDescPage(r.body, sessionresult,
                               {k \in 1..Len(sessionresult) :
                                   sessionresult[k].sessionId = session_id},
                               offset, limit)
                 /\ \A i \in 1..Len(r.body) : r.body[i].session_id = session_id
                 /\ session_id \notin 1..Len(session) => r.body = <<>>

\* The second page of one result of a session with two results of different
\* times, the newer one inserted first.
C8_Witness ==
    /\ resp.op = "list_session_results"
    /\ resp.args[2] = 1
    /\ Len(resp.body) = 1
    /\ resp.body[1].id = 2
    /\ resp.body[1].created_at = 1
    /\ sessionresult[1].createdAt = 2
    /\ sessionresult[1].sessionId = resp.args[1]
    /\ Len(session) = MaxSessions

====
